---- MODULE Spec2Model ----
(***************************************************************************)
(* A model of diesel's PostgreSQL query builder (PgQueryBuilder), of the   *)
(* statement constructors update/delete, and of the dispatch traits        *)
(* LoadQuery / LoadDsl / FirstDsl / ExecuteDsl.                            *)
(*                                                                         *)
(* Text is a sequence of one-character strings, so that quoting, escaping  *)
(* and decimal formatting are computed character by character.             *)
(***************************************************************************)
EXTENDS Integers, Sequences, FiniteSets, TLC

\* ------------------------------------------------------------------ bounds
\* Number of push_sql / push_identifier calls made on one builder.
MaxTextCalls == 2
\* Number of push_bind_param calls made on one builder (two-digit
\* placeholders need at least ten).
MaxBinds == 10

\* Number of rows a table can hold.
MaxRows == 2

\* ------------------------------------------------------------- characters
DQUOTE == "\""
DOLLAR == "$"
DigitChars == <<"0", "1", "2", "3", "4", "5", "6", "7", "8", "9">>

\* The identifiers handed to push_identifier: empty, plain, with adjacent
\* double quotes, and with double quotes at the start and at the end.
Identifiers == { <<>>, <<"a">>, <<DQUOTE, DQUOTE>>, <<DQUOTE, "a", DQUOTE>> }

\* The raw texts handed to push_sql.
SqlTexts == { <<"a", DQUOTE>> }

\* ------------------------------------------------------------- variables
VARIABLES
    sql,        \* PgQueryBuilder.sql
    bind_idx,   \* PgQueryBuilder.bind_idx
    qb_pc,      \* "building" until finish() consumes the builder
    finished,   \* the String finish() returned
    calls,      \* history: one record per call made on the builder
    conn,       \* the connection: database contents and what the last
                \* dispatch operation asked of it
    stmt,       \* the source / statement value the caller holds
    origin,     \* the source the held statement was constructed from
    result,     \* what the last dispatch operation returned
    last        \* the last dispatch operation: name, receiver, outcome drawn

qbvars == <<sql, bind_idx, qb_pc, finished, calls>>
dvars == <<conn, stmt, origin, result, last>>
vars == <<sql, bind_idx, qb_pc, finished, calls, conn, stmt, origin, result, last>>

\* --------------------------------------------------------- PgQueryBuilder
\* PgQueryBuilder::new() / Default: empty String, zero counter.
PgQueryBuilder_new == [sql |-> <<>>, bind_idx |-> 0]

\* str::replace('"', "\"\""), left to right.
RECURSIVE replace_quote(_)
replace_quote(s) ==
    IF s = <<>> THEN <<>>
    ELSE (IF Head(s) = DQUOTE THEN <<DQUOTE, DQUOTE>> ELSE <<Head(s)>>)
         \o replace_quote(Tail(s))

\* format!("{}", n) for an unsigned integer: decimal, no padding.
RECURSIVE format_u32(_)
format_u32(n) ==
    IF n < 10 THEN <<DigitChars[n + 1]>>
    ELSE format_u32(n \div 10) \o <<DigitChars[(n % 10) + 1]>>

\* Mutant: the text lands in front of the buffer.
push_sql_prepend(self, text) == [self EXCEPT !.sql = text \o self.sql]

\* self.sql.push_str(sql)
push_sql(self, text) == [self EXCEPT !.sql = self.sql \o text]

\* Mutant: the identifier is wrapped but its quotes are not doubled.
push_identifier_unescaped(self, identifier) ==
    [self |-> push_sql(push_sql(push_sql(self, <<DQUOTE>>), identifier),
                       <<DQUOTE>>),
     ret  |-> "Ok"]

\* push_sql("\""); push_sql(&identifier.replace('"', "\"\"")); push_sql("\""); Ok(())
push_identifier(self, identifier) ==
    [self |-> push_sql(push_sql(push_sql(self, <<DQUOTE>>),
                                replace_quote(identifier)),
                       <<DQUOTE>>),
     ret  |-> "Ok"]

\* Mutant: the placeholder is formatted before the counter is incremented.
push_bind_param_stale(self) ==
    LET inc == [self EXCEPT !.bind_idx = self.bind_idx + 1]
    IN  push_sql(inc, <<DOLLAR>> \o format_u32(self.bind_idx))

\* self.bind_idx += 1; let sql = format!("${}", self.bind_idx); self.push_sql(&sql)
\* bind_idx is a u32; the counter stays at or below MaxBinds here, far from
\* u32::MAX, so the addition is the mathematical one.
push_bind_param(self) ==
    LET inc == [self EXCEPT !.bind_idx = self.bind_idx + 1]
    IN  push_sql(inc, <<DOLLAR>> \o format_u32(inc.bind_idx))

\* finish(self) -> String
finish(self) == self.sql

\* ----------------------------------------------------- builder actions
Builder == [sql |-> sql, bind_idx |-> bind_idx]

\* What a call appended: the part of the new buffer after the old length.
Appended(old, new) == SubSeq(new, Len(old) + 1, Len(new))

NumCalls(ops) == Cardinality({i \in 1..Len(calls) : calls[i].op \in ops})

Record(op, arg, ret, after) ==
    Append(calls, [op |-> op, arg |-> arg, ret |-> ret,
                   before |-> sql,
                   after |-> after.sql,
                   idx_before |-> bind_idx,
                   idx_after |-> after.bind_idx])

PushSql ==
    /\ qb_pc = "building"
    /\ NumCalls({"push_sql", "push_identifier"}) < MaxTextCalls
    /\ \E text \in SqlTexts :
         LET after == push_sql(Builder, text) IN
         /\ sql' = after.sql
         /\ bind_idx' = after.bind_idx
         /\ calls' = Record("push_sql", text, "unit", after)
    /\ UNCHANGED <<qb_pc, finished>>
    /\ UNCHANGED dvars

PushIdentifier ==
    /\ qb_pc = "building"
    /\ NumCalls({"push_sql", "push_identifier"}) < MaxTextCalls
    /\ \E identifier \in Identifiers :
         LET r == push_identifier(Builder, identifier) IN
         /\ sql' = r.self.sql
         /\ bind_idx' = r.self.bind_idx
         /\ calls' = Record("push_identifier", identifier, r.ret, r.self)
    /\ UNCHANGED <<qb_pc, finished>>
    /\ UNCHANGED dvars

PushBindParam ==
    /\ qb_pc = "building"
    /\ NumCalls({"push_bind_param"}) < MaxBinds
    /\ LET after == push_bind_param(Builder) IN
         /\ sql' = after.sql
         /\ bind_idx' = after.bind_idx
         /\ calls' = Record("push_bind_param", <<>>, "unit", after)
    /\ UNCHANGED <<qb_pc, finished>>
    /\ UNCHANGED dvars

\* finish consumes the builder: no call is possible afterwards.
Finish ==
    /\ qb_pc = "building"
    /\ finished' = finish(Builder)
    /\ qb_pc' = "finished"
    /\ UNCHANGED <<sql, bind_idx, calls>>
    /\ UNCHANGED dvars

\* --------------------------------------------- tables, sources, results
Tables == {"users", "posts"}
RowIds == 1..MaxRows

\* Errors the connection can report; "ok" is the successful outcome.
ConnErrors == {"DatabaseError", "DeserializationError"}
Outcomes == {"ok"} \cup ConnErrors

Ok(v) == [tag |-> "Ok", val |-> v]
Err(e) == [tag |-> "Err", val |-> e]
NotFound == "NotFound"

\* A where-clause is NoWhereClause or a predicate, given by the rows it matches.
NoWhereClause == [kind |-> "NoWhereClause", pred |-> {}]
WhereClause(pred) == [kind |-> "WhereClause", pred |-> pred]
WhereClauses == {NoWhereClause} \cup {WhereClause(p) : p \in SUBSET RowIds}
Matches(wc, row) == wc.kind = "NoWhereClause" \/ row \in wc.pred

NoLimitClause == [set |-> FALSE, n |-> 0]
LimitClause(n) == [set |-> TRUE, n |-> n]

NoStatement == [kind |-> "none"]
Table(t) == [kind |-> "table", name |-> t]
\* table.filter(predicate): a select statement with a where-clause and nothing else
SelectStatement(from, wc, lim) ==
    [kind |-> "select", from |-> from, where_clause |-> wc, limit |-> lim]

\* What the caller can hand to update() / delete() / the dispatch methods.
Sources ==
    {Table(t) : t \in Tables}
    \cup {SelectStatement(t, WhereClause(p), NoLimitClause) :
            t \in Tables, p \in SUBSET RowIds}

\* IntoUpdateTarget::into_update_target: a table is its own target with no
\* where-clause; a filtered select gives its from-table and its where-clause.
into_update_target(source) ==
    IF source.kind = "table"
    THEN [table |-> source.name, where_clause |-> NoWhereClause]
    ELSE [table |-> source.from, where_clause |-> source.where_clause]

IncompleteUpdateStatement_new(target) ==
    [kind |-> "incomplete_update", table |-> target.table,
     where_clause |-> target.where_clause]

DeleteStatement_new(table, where_clause) ==
    [kind |-> "delete", table |-> table, where_clause |-> where_clause]

\* IncompleteUpdateStatement::set(changes): the finished update statement
set(incomplete) ==
    [kind |-> "update", table |-> incomplete.table,
     where_clause |-> incomplete.where_clause]

\* pub fn update<T: IntoUpdateTarget>(source: T)
update(source) == IncompleteUpdateStatement_new(into_update_target(source))

\* Mutant: the where-clause of the target is dropped.
delete_unfiltered(source) ==
    LET target == into_update_target(source)
    IN  DeleteStatement_new(target.table, NoWhereClause)

\* pub fn delete<T: IntoUpdateTarget>(source: T)
delete(source) ==
    LET target == into_update_target(source)
    IN  DeleteStatement_new(target.table, target.where_clause)

\* AsQuery::as_query: a table is SELECT * FROM table; a statement is itself
\* (update / delete get their RETURNING clause).
as_query(self) ==
    IF self.kind = "table"
    THEN SelectStatement(self.name, NoWhereClause, NoLimitClause)
    ELSE self

\* LimitDsl::limit(n) on the query of self
limit(self, n) == [as_query(self) EXCEPT !.limit = LimitClause(n)]

\* ----------------------------------------------------------- connection
Min(a, b) == IF a < b THEN a ELSE b

\* The rows of a table a statement addresses, in the table's order.
MatchingRows(db, table, wc) == SelectSeq(db[table], LAMBDA r : Matches(wc, r))

SelectedRows(db, q) ==
    LET m == MatchingRows(db, q.from, q.where_clause)
    IN  IF q.limit.set THEN SubSeq(m, 1, Min(q.limit.n, Len(m))) ELSE m

\* The rows a statement returns and the database it leaves.
Run(db, q) ==
    IF q.kind = "select"
    THEN [rows |-> SelectedRows(db, q), db |-> db]
    ELSE LET m == MatchingRows(db, q.table, q.where_clause) IN
         IF q.kind = "delete"
         THEN [rows |-> m,
               db |-> [db EXCEPT ![q.table] =
                         SelectSeq(db[q.table],
                                   LAMBDA r : ~Matches(q.where_clause, r))]]
         ELSE [rows |-> m, db |-> db]

Called(c, fn, q, reported, decoded, db) ==
    [db |-> db,
     trace |-> Append(c.trace, [fn |-> fn, query |-> q]),
     reported |-> reported,
     decoded |-> c.decoded + decoded]

\* Connection::query_by_index: runs the query of `source`, decodes every row
\* returned; a failure reports the error and no rows.
query_by_index(c, source, outcome) ==
    LET q == as_query(source)
        r == Run(c.db, q)
    IN  IF outcome = "ok"
        THEN [ret |-> Ok(r.rows),
              conn |-> Called(c, "query_by_index", q, Ok(r.rows), Len(r.rows), r.db)]
        ELSE [ret |-> Err(outcome),
              conn |-> Called(c, "query_by_index", q, Err(outcome), 0, c.db)]

\* Connection::execute_returning_count: runs the statement, decodes nothing,
\* reports the number of affected rows.
execute_returning_count(c, source, outcome) ==
    LET r == Run(c.db, source)
    IN  IF outcome = "ok"
        THEN [ret |-> Ok(Len(r.rows)),
              conn |-> Called(c, "execute_returning_count", source,
                              Ok(Len(r.rows)), 0, r.db)]
        ELSE [ret |-> Err(outcome),
              conn |-> Called(c, "execute_returning_count", source,
                              Err(outcome), 0, c.db)]

\* result::first_or_not_found
first_or_not_found(records) ==
    IF records.tag = "Err" THEN records
    ELSE IF records.val = <<>> THEN Err(NotFound)
    ELSE Ok(Head(records.val))

\* ------------------------------------------------------- dispatch traits
\* Mutant: a failed query is sent a second time.
internal_load_retry(self, c, outcome) ==
    LET r == query_by_index(c, self, outcome)
    IN  IF r.ret.tag = "Err" THEN query_by_index(r.conn, self, "ok") ELSE r

\* LoadQuery::internal_load
internal_load(self, c, outcome) == query_by_index(c, self, outcome)

\* Mutant: the query makes two round trips.
load_twice(self, c, outcome) ==
    internal_load(self, internal_load(self, c, outcome).conn, outcome)

\* LoadDsl::load
load(self, c, outcome) == internal_load(self, c, outcome)

\* Mutant: the last loaded row is kept instead of the first.
get_result_last(self, c, outcome) ==
    LET r == load(self, c, outcome)
    IN  [ret |-> IF r.ret.tag = "Ok" /\ r.ret.val # <<>>
                 THEN Ok(r.ret.val[Len(r.ret.val)])
                 ELSE first_or_not_found(r.ret),
         conn |-> r.conn]

\* LoadDsl::get_result
get_result(self, c, outcome) ==
    LET r == load(self, c, outcome)
    IN  [ret |-> first_or_not_found(r.ret), conn |-> r.conn]

\* Mutant: only the first loaded row is returned.
get_results_first_only(self, c, outcome) ==
    LET r == load(self, c, outcome)
    IN  [ret |-> IF r.ret.tag = "Ok"
                 THEN Ok(SubSeq(r.ret.val, 1, Min(1, Len(r.ret.val))))
                 ELSE r.ret,
         conn |-> r.conn]

\* LoadDsl::get_results
get_results(self, c, outcome) == load(self, c, outcome)

\* Mutant: the query is sent without the limit.
first_unlimited(self, c, outcome) == get_result(self, c, outcome)

\* FirstDsl::first
first(self, c, outcome) == get_result(limit(self, 1), c, outcome)

\* Mutant: no affected row is treated as NotFound.
execute_zero_is_error(self, c, outcome) ==
    LET r == execute_returning_count(c, self, outcome)
    IN  IF r.ret.tag = "Ok" /\ r.ret.val = 0
        THEN [ret |-> Err(NotFound), conn |-> r.conn]
        ELSE r

\* ExecuteDsl::execute
execute(self, c, outcome) == execute_returning_count(c, self, outcome)

\* ------------------------------------------------------ dispatch actions
\* The connection as an operation finds it: same database, nothing asked yet.
Idle(c) == [c EXCEPT !.trace = <<>>, !.decoded = 0, !.reported = Ok(0)]

\* Trait bounds: what each method is implemented for.
IsUpdateTarget(s) == s.kind \in {"table", "select"}
IsLoadable(s) == s.kind \in {"table", "select", "delete", "update"}
IsLimitable(s) == s.kind \in {"table", "select"}
IsExecutable(s) == s.kind \in {"select", "delete", "update"}

Begin(op, outcome) ==
    [op |-> op, self |-> stmt, outcome |-> outcome, before |-> Idle(conn)]

NoOperation ==
    [op |-> "none", self |-> NoStatement, outcome |-> "ok",
     before |-> [db |-> [t \in Tables |-> <<>>], trace |-> <<>>,
                 reported |-> Ok(0), decoded |-> 0]]

\* The caller writes a table or a filtered table expression, for the next
\* operation: the previous operation's result is dropped.
NewSource ==
    /\ stmt = NoStatement
    /\ \E s \in Sources : stmt' = s /\ origin' = s
    /\ conn' = Idle(conn)
    /\ result' = Ok(0)
    /\ last' = NoOperation
    /\ UNCHANGED qbvars

Update ==
    /\ IsUpdateTarget(stmt)
    /\ stmt' = update(stmt)
    /\ origin' = stmt
    /\ UNCHANGED <<conn, result, last>>
    /\ UNCHANGED qbvars

Set ==
    /\ stmt.kind = "incomplete_update"
    /\ stmt' = set(stmt)
    /\ UNCHANGED <<conn, origin, result, last>>
    /\ UNCHANGED qbvars

Delete ==
    /\ IsUpdateTarget(stmt)
    /\ stmt' = delete(stmt)
    /\ origin' = stmt
    /\ UNCHANGED <<conn, result, last>>
    /\ UNCHANGED qbvars

\* A dispatch method consumes its receiver and returns after its round trip.
Dispatched(op, outcome, r) ==
    /\ result' = r.ret
    /\ conn' = r.conn
    /\ last' = Begin(op, outcome)
    /\ stmt' = NoStatement
    /\ UNCHANGED origin
    /\ UNCHANGED qbvars

Load ==
    /\ IsLoadable(stmt)
    /\ \E o \in Outcomes : Dispatched("load", o, load(stmt, Idle(conn), o))

GetResult ==
    /\ IsLoadable(stmt)
    /\ \E o \in Outcomes :
         Dispatched("get_result", o, get_result(stmt, Idle(conn), o))

GetResults ==
    /\ IsLoadable(stmt)
    /\ \E o \in Outcomes :
         Dispatched("get_results", o, get_results(stmt, Idle(conn), o))

First ==
    /\ IsLimitable(stmt)
    /\ \E o \in Outcomes : Dispatched("first", o, first(stmt, Idle(conn), o))

Execute ==
    /\ IsExecutable(stmt)
    /\ \E o \in Outcomes : Dispatched("execute", o, execute(stmt, Idle(conn), o))

\* ------------------------------------------------------- specifications
\* Sequences over S without repetition: the possible contents of a table.
Distinct(S) ==
    UNION {{s \in [1..n -> S] : \A i, j \in 1..n : s[i] = s[j] => i = j} :
           n \in 0..Cardinality(S)}

QBInit ==
    /\ sql = PgQueryBuilder_new.sql
    /\ bind_idx = PgQueryBuilder_new.bind_idx
    /\ qb_pc = "building"
    /\ finished = <<>>
    /\ calls = <<>>

DInit ==
    /\ stmt = NoStatement
    /\ origin = NoStatement
    /\ result = Ok(0)
    /\ last = NoOperation

\* The builder alone: the connection is idle on an empty database.
InitQB ==
    /\ QBInit
    /\ DInit
    /\ conn = NoOperation.before

\* The dispatch layer alone, on any database.
InitDispatch ==
    /\ QBInit
    /\ DInit
    /\ \E db \in [Tables -> Distinct(RowIds)] :
         conn = [NoOperation.before EXCEPT !.db = db]

QBNext == PushSql \/ PushIdentifier \/ PushBindParam \/ Finish

DispatchNext ==
    \/ NewSource \/ Update \/ Set \/ Delete
    \/ Load \/ GetResult \/ GetResults \/ First \/ Execute

SpecQB == InitQB /\ [][QBNext]_vars

SpecDispatch == InitDispatch /\ [][DispatchNext]_vars

\* ------------------------------------------------ properties: the builder
IsPrefix(a, b) == Len(a) <= Len(b) /\ SubSeq(b, 1, Len(a)) = a

IsDigit(ch) == \E d \in 1..10 : DigitChars[d] = ch
DigitValue(ch) == (CHOOSE d \in 1..10 : DigitChars[d] = ch) - 1

\* Reading a decimal numeral, most significant digit first.
RECURSIVE ParseDecimal(_)
ParseDecimal(s) ==
    IF s = <<>> THEN 0
    ELSE ParseDecimal(SubSeq(s, 1, Len(s) - 1)) * 10 + DigitValue(s[Len(s)])

\* text is exactly the placeholder "$n": a dollar sign, then the canonical
\* decimal numeral of n.
IsPlaceholder(text, n) ==
    /\ Len(text) >= 2
    /\ text[1] = DOLLAR
    /\ \A k \in 2..Len(text) : IsDigit(text[k])
    /\ (Len(text) > 2 => text[2] # "0")
    /\ ParseDecimal(Tail(text)) = n

\* The number of push_bind_param calls among the first i calls.
BindsUpTo(i) == Cardinality({j \in 1..i : calls[j].op = "push_bind_param"})

CallText(i) == Appended(calls[i].before, calls[i].after)

\* C1: on a fresh builder, after any sequence of push_sql, push_identifier
\* and push_bind_param calls, bind_idx is the number of push_bind_param calls
\* made so far; the N-th push_bind_param call appends exactly "$N"; push_sql
\* and push_identifier leave bind_idx as it was.
C1_BindIdxCountsBindParams ==
    /\ bind_idx = BindsUpTo(Len(calls))
    /\ \A i \in 1..Len(calls) :
         IF calls[i].op = "push_bind_param"
         THEN /\ calls[i].idx_after = BindsUpTo(i)
              /\ IsPrefix(calls[i].before, calls[i].after)
              /\ IsPlaceholder(CallText(i), BindsUpTo(i))
         ELSE calls[i].idx_after = calls[i].idx_before

\* Ten placeholders emitted, with an identifier pushed between the first
\* and the second.
C1_Witness ==
    /\ bind_idx = 10
    /\ \E i \in 1..Len(calls) :
         calls[i].op = "push_identifier" /\ calls[i].idx_before = 1
    /\ \E i \in 1..Len(calls) :
         calls[i].op = "push_bind_param"
         /\ CallText(i) = <<DOLLAR, "1", "0">>

\* Replacing each doubled quote by a single one, left to right.
RECURSIVE Unescape(_)
Unescape(s) ==
    IF s = <<>> THEN <<>>
    ELSE IF Len(s) >= 2 /\ s[1] = DQUOTE /\ s[2] = DQUOTE
         THEN <<DQUOTE>> \o Unescape(SubSeq(s, 3, Len(s)))
         ELSE <<Head(s)>> \o Unescape(Tail(s))

\* Every quote of s belongs to a pair of adjacent quotes.
RECURSIVE QuotesPaired(_)
QuotesPaired(s) ==
    IF s = <<>> THEN TRUE
    ELSE IF s[1] = DQUOTE
         THEN Len(s) >= 2 /\ s[2] = DQUOTE /\ QuotesPaired(SubSeq(s, 3, Len(s)))
         ELSE QuotesPaired(Tail(s))

NumQuotes(s) == Cardinality({k \in 1..Len(s) : s[k] = DQUOTE})
NonQuotes(s) == SelectSeq(s, LAMBDA ch : ch # DQUOTE)

\* C2: for every identifier s (empty, or with one or more double quotes),
\* push_identifier(s) returns Ok and appends a token that starts and ends
\* with a double quote, in which every quote of s is doubled and no other
\* character is altered; stripping the outer quotes and un-doubling gives s.
C2_IdentifierQuotedAndRoundTrips ==
    \A i \in 1..Len(calls) :
      calls[i].op = "push_identifier" =>
        LET s == calls[i].arg
            token == CallText(i)
            inner == SubSeq(token, 2, Len(token) - 1)
        IN  /\ calls[i].ret = "Ok"
            /\ IsPrefix(calls[i].before, calls[i].after)
            /\ Len(token) >= 2
            /\ token[1] = DQUOTE
            /\ token[Len(token)] = DQUOTE
            /\ QuotesPaired(inner)
            /\ NumQuotes(inner) = 2 * NumQuotes(s)
            /\ NonQuotes(inner) = NonQuotes(s)
            /\ Unescape(inner) = s

\* The identifier made of two double quotes was pushed, as six quotes.
C2_Witness ==
    \E i \in 1..Len(calls) :
      /\ calls[i].op = "push_identifier"
      /\ calls[i].arg = <<DQUOTE, DQUOTE>>
      /\ CallText(i) = <<DQUOTE, DQUOTE, DQUOTE, DQUOTE, DQUOTE, DQUOTE>>

\* The text a call is to contribute: push_sql its argument verbatim, the
\* other two whatever they appended.
Contribution(i) ==
    IF calls[i].op = "push_sql" THEN calls[i].arg ELSE CallText(i)

RECURSIVE ConcatUpTo(_)
ConcatUpTo(i) == IF i = 0 THEN <<>> ELSE ConcatUpTo(i - 1) \o Contribution(i)

\* C10: the buffer, and what finish returns, is the concatenation in call
\* order of what each call appended (push_sql: its argument verbatim); text
\* already in the buffer is never modified, reordered or removed; the k-th
\* push_bind_param call's placeholder is "$k" and stands in the finished SQL
\* where that call was made.
C10_FinishIsConcatenationInCallOrder ==
    /\ sql = ConcatUpTo(Len(calls))
    /\ \A i \in 1..Len(calls) :
         /\ calls[i].before = (IF i = 1 THEN <<>> ELSE calls[i - 1].after)
         /\ calls[i].after = calls[i].before \o Contribution(i)
         /\ calls[i].op = "push_bind_param" =>
              LET start == Len(calls[i].before)
                  len == Len(Contribution(i))
              IN  IsPlaceholder(SubSeq(sql, start + 1, start + len),
                                BindsUpTo(i))
    /\ qb_pc = "finished" => finished = sql

\* Finished SQL with raw text, then a placeholder, then an identifier, then
\* a second placeholder: a"$1"a"$2
C10_Witness ==
    /\ qb_pc = "finished"
    /\ Len(calls) = 4
    /\ finished = <<"a", DQUOTE, DOLLAR, "1", DQUOTE, "a", DQUOTE, DOLLAR, "2">>

\* ------------------------------------------- properties: dispatch layer
SameResult(a, b) == a.tag = b.tag /\ a.val = b.val
IsOk(r, v) == r.tag = "Ok" /\ r.val = v
IsErr(r, e) == r.tag = "Err" /\ r.val = e

LoadOps == {"load", "get_results", "get_result", "first"}

\* The entry points the last operation called, in order.
TraceFns == [i \in 1..Len(conn.trace) |-> conn.trace[i].fn]

\* C3: get_result on a query whose load succeeds with no row returns
\* Err(NotFound); with one row, Ok of that row; with more than one row, Ok of
\* the first row loaded, the rest being ignored.
C3_GetResultFirstOrNotFound ==
    (last.op = "get_result" /\ conn.reported.tag = "Ok") =>
        LET rows == conn.reported.val
        IN  /\ rows = <<>> => IsErr(result, NotFound)
            /\ Len(rows) = 1 => IsOk(result, rows[1])
            /\ Len(rows) > 1 => IsOk(result, rows[1])

\* get_result on a delete ... returning whose rows came back as 2, 1.
C3_Witness ==
    /\ last.op = "get_result"
    /\ conn.reported.tag = "Ok"
    /\ conn.reported.val = <<2, 1>>
    /\ IsOk(result, 2)

\* C4: execute returns exactly what execute_returning_count reported; a
\* count of 0 (a delete whose predicate matches no row) is Ok(0), not an
\* error; execute never calls query_by_index and decodes no row.
C4_ExecuteReturnsCount ==
    last.op = "execute" =>
        /\ SameResult(result, conn.reported)
        /\ TraceFns = <<"execute_returning_count">>
        /\ conn.trace[1].query = last.self
        /\ conn.decoded = 0
        /\ (last.outcome = "ok" /\ last.self.kind = "delete"
            /\ MatchingRows(last.before.db, last.self.table,
                            last.self.where_clause) = <<>>)
           => IsOk(result, 0)

\* A delete whose predicate matches none of the two rows of its table.
C4_Witness ==
    /\ last.op = "execute"
    /\ last.self.kind = "delete"
    /\ Len(last.before.db[last.self.table]) = 2
    /\ last.self.where_clause = WhereClause({})
    /\ IsOk(result, 0)
    /\ conn.db = last.before.db

\* C5: when the connection reports an error, load, get_results, get_result,
\* first and execute return that error unchanged: no retry, no NotFound or
\* other error in its place, no rows.
C5_ConnectionErrorPassedThrough ==
    (last.op # "none" /\ last.outcome # "ok") =>
        /\ IsErr(result, last.outcome)
        /\ SameResult(result, conn.reported)
        /\ Len(conn.trace) = 1
        /\ conn.decoded = 0

\* first on a query met by a database error.
C5_Witness ==
    /\ last.op = "first"
    /\ last.outcome = "DatabaseError"
    /\ IsErr(result, "DatabaseError")

\* C6: every dispatch operation makes exactly one call to the connection:
\* load, get_results, get_result and first call query_by_index once and
\* execute_returning_count never; execute calls execute_returning_count once
\* and query_by_index never; on success and on failure alike.
C6_ExactlyOneConnectionCall ==
    /\ last.op \in LoadOps => TraceFns = <<"query_by_index">>
    /\ last.op = "execute" => TraceFns = <<"execute_returning_count">>
    /\ last.op = "none" => TraceFns = <<>>

\* A failed get_results after one query_by_index call.
C6_Witness ==
    /\ last.op = "get_results"
    /\ result.tag = "Err"
    /\ TraceFns = <<"query_by_index">>

\* C7: first sends the limit-1 form of the original query and behaves as
\* get_result on it: Ok of the single row when the limited query yields one,
\* Err(NotFound) when it yields none; at most one row is decoded however many
\* rows match the unlimited query.
C7_FirstIsGetResultOfLimitOne ==
    last.op = "first" =>
        LET original == IF last.self.kind = "table"
                        THEN SelectStatement(last.self.name, NoWhereClause,
                                             NoLimitClause)
                        ELSE last.self
            sent == conn.trace[1].query
            unlimited == MatchingRows(last.before.db, original.from,
                                      original.where_clause)
        IN  /\ Len(conn.trace) = 1
            /\ sent.kind = "select"
            /\ sent.from = original.from
            /\ sent.where_clause = original.where_clause
            /\ sent.limit.set /\ sent.limit.n = 1
            /\ conn.decoded <= 1
            /\ SameResult(result,
                          get_result(sent, last.before, last.outcome).ret)
            /\ last.outcome = "ok" =>
                 /\ unlimited = <<>> => IsErr(result, NotFound)
                 /\ unlimited # <<>> =>
                      /\ IsOk(result, unlimited[1])
                      /\ conn.reported.val = <<unlimited[1]>>
                      /\ conn.decoded = 1

\* first on an unfiltered table holding rows 2, 1 in that order.
C7_Witness ==
    /\ last.op = "first"
    /\ last.self.kind = "table"
    /\ last.before.db[last.self.name] = <<2, 1>>
    /\ IsOk(result, 2)
    /\ conn.decoded = 1

\* C8: get_results returns exactly what load returns for the same query and
\* the same connection behaviour, rows in the same order, and leaves the
\* connection as load does.
C8_GetResultsIsLoad ==
    last.op = "get_results" =>
        LET r == load(last.self, last.before, last.outcome)
        IN  /\ SameResult(result, r.ret)
            /\ conn = r.conn
            /\ SameResult(result, conn.reported)

\* get_results that returned the rows 2, 1 in the table's order.
C8_Witness ==
    /\ last.op = "get_results"
    /\ IsOk(result, <<2, 1>>)

\* The table and the rows a source addresses.
SourceTable(s) == IF s.kind = "table" THEN s.name ELSE s.from
SourceCovers(s, row) == s.kind = "table" \/ row \in s.where_clause.pred

\* C9: delete(source) and update(source) carry exactly the table and the
\* where-clause of the source: a filtered source gives a statement restricted
\* to that predicate (executing the delete removes the matching rows only),
\* an unfiltered table a statement with no predicate (executing the delete
\* empties the table).
C9_TargetTableAndWhereClauseKept ==
    /\ stmt.kind \in {"delete", "incomplete_update"} =>
         /\ stmt.table = SourceTable(origin)
         /\ origin.kind = "table" => stmt.where_clause = NoWhereClause
         /\ origin.kind = "select" => stmt.where_clause = origin.where_clause
    /\ (last.op = "execute" /\ last.self.kind = "delete" /\ last.outcome = "ok") =>
         LET t == SourceTable(origin)
             was == last.before.db
         IN  /\ last.self.table = t
             /\ conn.db[t] = SelectSeq(was[t], LAMBDA r : ~SourceCovers(origin, r))
             /\ \A u \in Tables \ {t} : conn.db[u] = was[u]
             /\ origin.kind = "table" => conn.db[t] = <<>>
             /\ IsOk(result, Len(was[t]) - Len(conn.db[t]))

\* delete(users.filter(id = 1)) executed on users = 2, 1: row 2 stays.
C9_Witness ==
    /\ last.op = "execute"
    /\ last.self.kind = "delete"
    /\ origin = SelectStatement("users", WhereClause({1}), NoLimitClause)
    /\ last.before.db["users"] = <<2, 1>>
    /\ conn.db["users"] = <<2>>
    /\ IsOk(result, 1)
====
